---- MODULE Spec2Model ----
(***************************************************************************)
(* Model of preprocessy.feature_selection.SelectKBest                      *)
(* (src/preprocessy/feature_selection/_selectKBest.py).                    *)
(*                                                                         *)
(* One selector object is modelled.  Its fields are k, score_func, scores  *)
(* and pvalues.  A feature table is modelled by its column positions       *)
(* 1..ncols (the source's 0-based column i is position i+1 here), a target *)
(* by its type and its number of distinct values, and the scoring function *)
(* (an external collaborator) by the value it returns for the call.        *)
(***************************************************************************)
EXTENDS Integers, Sequences, FiniteSets, TLC

\* ---- bounds of the model ----
\* Spec (whole life cycle): tables of 0..MaxCols columns, each score the
\* lowest or the highest of 0..MaxScore.
\* SpecMask (one fit, then transforms): tables of 0..MaxFeatures columns,
\* scores 0..MaxScore.
MaxCols == 2
MaxFeatures == 4
MaxScore == 2

\* ---- program constant: fit() picks f_classif when y.nunique() <= 15 ----
ClassifMaxClasses == 15

VARIABLES k, score_func, scores, pvalues, last, fitted

vars == <<k, score_func, scores, pvalues, last, fitted>>

\* ---- values ----
\* Python None / numpy arrays.  ndim 1 arrays carry their elements in v,
\* a 0-d array carries its single element as <<x>>.
NoneVal == [kind |-> "None", v |-> <<>>]
Array1d(s) == [kind |-> "ndarray", v |-> s]
Array0d(x) == [kind |-> "0d", v |-> <<x>>]

Min(a, b) == IF a < b THEN a ELSE b
Max(a, b) == IF a > b THEN a ELSE b
Range(s) == {s[i] : i \in 1..Len(s)}

\* score_func: None, the two scorers fit can pick, a callable of the caller
\* and a value that is not callable
ScoreFuncs == {"None", "f_classif", "f_regression", "custom", "invalid"}
BuiltinScorers == {"f_classif", "f_regression"}
XTypes == {"DataFrame", "list"}
YTypes == {"Series", "list"}
YUniques == {ClassifMaxClasses, ClassifMaxClasses + 1}
\* p-values of a pair: one value for all the features, 0 or 1
PValues == {0, 1}

AllScores == 0..MaxScore
FitScores == {0, MaxScore}

ScoreVectors(n, S) == [1..n -> S]
PVectors(n) == {[i \in 1..n |-> p] : p \in PValues}

\* What score_func(X, y) does for a table of n columns: it raises, or it
\* returns n scores as an ndarray, n scores as a plain list, or a pair
\* (scores, p-values).
NoRet == [shape |-> "raise", s |-> <<>>, p |-> <<>>]
Returns(n, S) ==
    {NoRet}
    \cup {[shape |-> sh, s |-> s, p |-> <<>>] :
             sh \in {"ndarray", "list"}, s \in ScoreVectors(n, S)}
    \cup {[shape |-> "pair", s |-> s, p |-> p] :
             s \in ScoreVectors(n, S), p \in PVectors(n)}

\* sklearn's f_classif and f_regression return a pair of arrays, and reject
\* a table without columns.
BuiltinReturns(n, S) ==
    {r \in Returns(n, S) : r.shape = "raise" \/ (r.shape = "pair" /\ n >= 1)}

callable(f) == f \in {"f_classif", "f_regression", "custom"}

\* numpy.asarray of a sequence / of a scalar
asarray(s) == Array1d(s)
asarray0(x) == Array0d(x)

\* ---- __get_mask ----
\* numpy.argsort(kind="stable"): positions 1..n in ascending score order,
\* equal scores keeping their original order.  Insertion of position i after
\* every position already placed whose score is <= s[i].
\* Variant: an unstable insertion, position i goes before the positions of
\* equal score.
RECURSIVE InsertUnstable(_, _, _)
InsertUnstable(sorted, i, s) ==
    IF sorted = <<>> THEN <<i>>
    ELSE IF s[Head(sorted)] < s[i]
         THEN <<Head(sorted)>> \o InsertUnstable(Tail(sorted), i, s)
         ELSE <<i>> \o sorted

RECURSIVE InsertStable(_, _, _)
InsertStable(sorted, i, s) ==
    IF sorted = <<>> THEN <<i>>
    ELSE IF s[Head(sorted)] <= s[i]
         THEN <<Head(sorted)>> \o InsertStable(Tail(sorted), i, s)
         ELSE <<i>> \o sorted

RECURSIVE argsortUpTo(_, _)
argsortUpTo(s, n) ==
    IF n = 0 THEN <<>> ELSE InsertStable(argsortUpTo(s, n - 1), n, s)

argsort(s) == argsortUpTo(s, Len(s))

\* Variant: the slice taken one position late, a[start + 1:].
SliceFromOffByOne(a, start) ==
    LET n == Len(a)
        st == IF start + 1 < 0 THEN Max(n + start + 1, 0)
              ELSE Min(start + 1, n)
    IN SubSeq(a, st + 1, n)

\* Variant: a start before the first element is not clamped to it and
\* yields nothing.
SliceFromNoClamp(a, start) ==
    LET n == Len(a)
    IN IF start < 0
       THEN IF n + start < 0 THEN <<>> ELSE SubSeq(a, n + start + 1, n)
       ELSE IF start > n THEN <<>> ELSE SubSeq(a, start + 1, n)

\* Python slice a[start:]
SliceFrom(a, start) ==
    LET n == Len(a)
        st == IF start < 0 THEN Max(n + start, 0) ELSE Min(start, n)
    IN SubSeq(a, st + 1, n)

zeros(n) == [i \in 1..n |-> FALSE]

\* mask[idx] = 1
SetTrue(mask, idx) == [i \in 1..Len(mask) |-> mask[i] \/ i \in Range(idx)]

NoMask == [err |-> "none", ndim |-> 1, mask |-> <<>>]

\* Variant: no check that scores is set; scores.shape of None raises.
get_maskNoFitCheck(kk, sc) ==
    IF sc.kind = "None" THEN [NoMask EXCEPT !.err = "AttributeError"]
    ELSE IF kk = 0
         THEN IF sc.kind = "0d"
              THEN [NoMask EXCEPT !.ndim = 0, !.mask = <<FALSE>>]
              ELSE [NoMask EXCEPT !.mask = zeros(Len(sc.v))]
         ELSE IF sc.kind = "0d"
              THEN [NoMask EXCEPT !.err = "IndexError"]
              ELSE [NoMask EXCEPT
                      !.mask = SetTrue(zeros(Len(sc.v)),
                                       SliceFrom(argsort(sc.v), -kk))]

get_mask(kk, sc) ==
    IF kk = 0
    THEN IF sc.kind = "None"
         THEN [NoMask EXCEPT !.err = "AttributeError"]
         ELSE IF sc.kind = "0d"
              THEN [NoMask EXCEPT !.ndim = 0, !.mask = <<FALSE>>]
              ELSE [NoMask EXCEPT !.mask = zeros(Len(sc.v))]
    ELSE IF sc.kind = "None"
         THEN [NoMask EXCEPT !.err = "NotFitted"]
         ELSE IF sc.kind = "0d"
              THEN [NoMask EXCEPT !.err = "IndexError"]
              ELSE [NoMask EXCEPT
                      !.mask = SetTrue(zeros(Len(sc.v)),
                                       SliceFrom(argsort(sc.v), -kk))]

\* ---- transform ----
any(mask) == \E i \in 1..Len(mask) : mask[i]

\* X.iloc[:, mask]: the columns of X whose mask entry is true, in X's order
RECURSIVE ilocUpTo(_, _)
ilocUpTo(mask, n) ==
    IF n = 0 THEN <<>>
    ELSE IF mask[n] THEN Append(ilocUpTo(mask, n - 1), n)
         ELSE ilocUpTo(mask, n - 1)

iloc(mask) == ilocUpTo(mask, Len(mask))

\* Variant: no comparison of the mask length with the table's column count;
\* the mask is applied to the columns the table has.
transformNoShapeCheck(kk, sc, ncols) ==
    LET m == get_mask(kk, sc) IN
    IF m.err /= "none" THEN [outcome |-> m.err, cols |-> <<>>]
    ELSE IF ~any(m.mask) THEN [outcome |-> "NoFeatures", cols |-> <<>>]
    ELSE [outcome |-> "ok",
          cols |-> SelectSeq(iloc(m.mask), LAMBDA c : c <= ncols)]

transform(kk, sc, ncols) ==
    LET m == get_mask(kk, sc) IN
    IF m.err /= "none" THEN [outcome |-> m.err, cols |-> <<>>]
    ELSE IF ~any(m.mask) THEN [outcome |-> "NoFeatures", cols |-> <<>>]
    ELSE IF Len(m.mask) /= ncols THEN [outcome |-> "ShapeMismatch", cols |-> <<>>]
    ELSE [outcome |-> "ok", cols |-> iloc(m.mask)]

\* ---- fit ----
\* Variant: the classification scorer only below the threshold.
default_score_funcBelow(nunique) ==
    IF nunique < ClassifMaxClasses THEN "f_classif" ELSE "f_regression"

\* lines 106-110
default_score_func(nunique) ==
    IF nunique <= ClassifMaxClasses THEN "f_classif" ELSE "f_regression"

\* Variant: pvalues is not cleared when score_func returns scores only.
storeKeepPvalues(sc, pv, ret) ==
    IF ret.shape = "pair"
    THEN [outcome |-> "ok", scores |-> asarray(ret.s),
          pvalues |-> asarray(ret.p)]
    ELSE IF ret.shape = "list"
         THEN IF Len(ret.s) /= 2
              THEN [outcome |-> "UnpackError", scores |-> sc, pvalues |-> pv]
              ELSE [outcome |-> "ok", scores |-> asarray0(ret.s[1]),
                    pvalues |-> asarray0(ret.s[2])]
    ELSE [outcome |-> "ok", scores |-> asarray(ret.s), pvalues |-> pv]

\* Variant: the pair is unpacked the wrong way round.
storeSwapped(sc, pv, ret) ==
    IF ret.shape = "pair"
    THEN [outcome |-> "ok", scores |-> asarray(ret.p),
          pvalues |-> asarray(ret.s)]
    ELSE IF ret.shape = "list"
         THEN IF Len(ret.s) /= 2
              THEN [outcome |-> "UnpackError", scores |-> sc, pvalues |-> pv]
              ELSE [outcome |-> "ok", scores |-> asarray0(ret.s[2]),
                    pvalues |-> asarray0(ret.s[1])]
    ELSE [outcome |-> "ok", scores |-> asarray(ret.s), pvalues |-> NoneVal]

\* lines 118-125: what fit stores for the value ret that score_func returned.
\* A list or tuple is unpacked into two names; a plain list of scores is a
\* list too, and unpacks only when it holds exactly two of them.
store(sc, pv, ret) ==
    IF ret.shape = "pair"
    THEN [outcome |-> "ok", scores |-> asarray(ret.s),
          pvalues |-> asarray(ret.p)]
    ELSE IF ret.shape = "list"
         THEN IF Len(ret.s) /= 2
              THEN [outcome |-> "UnpackError", scores |-> sc, pvalues |-> pv]
              ELSE [outcome |-> "ok", scores |-> asarray0(ret.s[1]),
                    pvalues |-> asarray0(ret.s[2])]
    ELSE [outcome |-> "ok", scores |-> asarray(ret.s), pvalues |-> NoneVal]

\* Variant: the default scorer is picked before X and y are validated.
fitDefaultFirst(sf, sc, pv, xtype, ytype, nunique, ret) ==
    LET sf1 == IF sf = "None" THEN default_score_func(nunique) ELSE sf
        keep == [outcome |-> "TypeError", score_func |-> sf1, scores |-> sc,
                 pvalues |-> pv, scored |-> FALSE]
        st == store(sc, pv, ret)
    IN
    IF xtype /= "DataFrame" THEN keep
    ELSE IF ytype /= "Series" THEN keep
    ELSE IF ~callable(sf1) THEN keep
    ELSE IF ret.shape = "raise"
         THEN [keep EXCEPT !.outcome = "ScorerError", !.scored = TRUE]
    ELSE [outcome |-> st.outcome, score_func |-> sf1, scores |-> st.scores,
          pvalues |-> st.pvalues, scored |-> TRUE]

fit(sf, sc, pv, xtype, ytype, nunique, ret) ==
    LET keep == [outcome |-> "TypeError", score_func |-> sf, scores |-> sc,
                 pvalues |-> pv, scored |-> FALSE]
        sf1 == IF sf = "None" THEN default_score_func(nunique) ELSE sf
        st == store(sc, pv, ret)
    IN
    IF xtype /= "DataFrame" THEN keep
    ELSE IF ytype /= "Series" THEN keep
    ELSE IF ~callable(sf1) THEN [keep EXCEPT !.score_func = sf1]
    ELSE IF ret.shape = "raise"
         THEN [keep EXCEPT !.outcome = "ScorerError", !.score_func = sf1,
                           !.scored = TRUE]
    ELSE [outcome |-> st.outcome, score_func |-> sf1, scores |-> st.scores,
          pvalues |-> st.pvalues, scored |-> TRUE]

\* ---- the state machine ----
\* last: the most recent call and what it did.  For fit: sf0 is score_func
\* as the call found it, prevp the kind of pvalues as the call found it,
\* nunique the target's cardinality (0 when fit raised on the type of X or
\* y), scored whether score_func was invoked and shape what it returned.
\* For transform: ncols is the column count of the table passed, cols the
\* columns of the table returned.
\* fitted: the most recent fit that returned normally (the column count of
\* its table and what the scoring function returned to it), and whether any
\* fit has raised so far.
NoCall == [op |-> "init", outcome |-> "ok", ncols |-> 0, cols |-> <<>>,
           scored |-> FALSE, shape |-> "raise", sf0 |-> "None",
           nunique |-> 0, prevp |-> "None"]
NoFit == [done |-> FALSE, ncols |-> 0, ret |-> NoRet, failed |-> FALSE]

Init ==
    /\ k \in (-1)..(MaxCols + 1)
    /\ score_func \in ScoreFuncs
    /\ scores = NoneVal
    /\ pvalues = NoneVal
    /\ last = NoCall
    /\ fitted = NoFit

Fit(xtype, ytype, nunique, ncols, ret) ==
    LET r == fit(score_func, scores, pvalues, xtype, ytype, nunique, ret) IN
    /\ score_func' = r.score_func
    /\ scores' = r.scores
    /\ pvalues' = r.pvalues
    /\ last' = [NoCall EXCEPT !.op = "fit", !.outcome = r.outcome,
                              !.scored = r.scored, !.sf0 = score_func,
                              !.shape = IF r.scored THEN ret.shape
                                        ELSE "raise",
                              !.nunique = nunique, !.prevp = pvalues.kind]
    /\ fitted' = IF r.outcome = "ok"
                 THEN [fitted EXCEPT !.done = TRUE, !.ncols = ncols,
                                     !.ret = ret]
                 ELSE [fitted EXCEPT !.failed = TRUE]
    /\ UNCHANGED k

Transform(ncols) ==
    LET r == transform(k, scores, ncols) IN
    /\ last' = [NoCall EXCEPT !.op = "transform", !.outcome = r.outcome,
                              !.ncols = ncols, !.cols = r.cols]
    /\ UNCHANGED <<k, score_func, scores, pvalues, fitted>>

\* selector.score_func = f (the attribute is public)
SetScoreFunc(f) ==
    /\ score_func' = f
    /\ last' = [NoCall EXCEPT !.op = "set"]
    /\ UNCHANGED <<k, scores, pvalues, fitted>>

\* The arguments of a fit call.  What the call never reads is not varied:
\* a call that raises on the type of X or y (lines 96-104) reads neither the
\* target's cardinality nor the table's columns.
TypesOk(xtype, ytype) == xtype = "DataFrame" /\ ytype = "Series"

YUniquesOf(xtype, ytype) ==
    IF TypesOk(xtype, ytype) THEN YUniques ELSE {0}

ColCountsOf(xtype, ytype, nunique) ==
    LET sf1 == IF score_func = "None" THEN default_score_func(nunique)
               ELSE score_func
    IN IF TypesOk(xtype, ytype) /\ callable(sf1) THEN 0..MaxCols ELSE {0}

\* The values score_func(X, y) can produce in this call; when fit raises
\* before the call (line 117) the scoring function produces nothing.
ScorerReturns(xtype, ytype, nunique, ncols) ==
    LET sf1 == IF score_func = "None" THEN default_score_func(nunique)
               ELSE score_func
    IN IF ~(TypesOk(xtype, ytype) /\ callable(sf1)) THEN {NoRet}
       ELSE IF sf1 \in BuiltinScorers THEN BuiltinReturns(ncols, FitScores)
            ELSE Returns(ncols, FitScores)

FitCalls ==
    \E xtype \in XTypes, ytype \in YTypes :
        \E nunique \in YUniquesOf(xtype, ytype) :
            \E ncols \in ColCountsOf(xtype, ytype, nunique) :
                \E ret \in ScorerReturns(xtype, ytype, nunique, ncols) :
                    Fit(xtype, ytype, nunique, ncols, ret)

TransformCalls == \E ncols \in 0..MaxCols : Transform(ncols)

SetScoreFuncCalls == \E f \in ScoreFuncs : SetScoreFunc(f)

Next == FitCalls \/ TransformCalls \/ SetScoreFuncCalls

Spec == Init /\ [][Next]_vars

\* ---- one fit, then transforms ----
\* The selector right after construction and one fit(X, y) whose scoring
\* function kept to the documented contract (lines 42-43: a single array of
\* scores, or a pair of arrays), for every k, table width and score vector
\* within the bounds; the only calls that follow are transforms.
InitMask ==
    \E n \in 0..MaxFeatures :
        \E ret \in {r \in Returns(n, AllScores) :
                        r.shape \in {"ndarray", "pair"}} :
            LET r == fit("custom", NoneVal, NoneVal, "DataFrame", "Series",
                         ClassifMaxClasses, ret)
            IN /\ k \in (-1)..(MaxFeatures + 1)
               /\ score_func = r.score_func
               /\ scores = r.scores
               /\ pvalues = r.pvalues
               /\ last = [NoCall EXCEPT !.op = "fit", !.outcome = r.outcome,
                                        !.scored = r.scored,
                                        !.shape = ret.shape, !.sf0 = "custom",
                                        !.nunique = ClassifMaxClasses]
               /\ fitted = [NoFit EXCEPT !.done = TRUE, !.ncols = n,
                                         !.ret = ret]

TransformMaskCalls == \E ncols \in 0..MaxFeatures : Transform(ncols)

NextMask == TransformMaskCalls

SpecMask == InitMask /\ [][NextMask]_vars

\* ======================= properties =======================
Increasing(s) == \A i \in 1..Len(s) : \A j \in 1..Len(s) : i < j => s[i] < s[j]
Columns(n) == [i \in 1..n |-> i]

\* The last call was transform(X) on a table as wide as the fitted one
\* (the same X in particular).
TransformedFittedTable ==
    /\ last.op = "transform"
    /\ fitted.done
    /\ last.ncols = fitted.ncols

\* C1: with 0 < k <= n_features, transform(X) after a fit(X, y) that returned
\* normally returns exactly k columns, each a column of X, in X's order
\* without repetition.
C1_ExactlyKColumnsInOrder ==
    (TransformedFittedTable /\ 0 < k /\ k <= fitted.ncols)
        => /\ last.outcome = "ok"
           /\ Len(last.cols) = k
           /\ Range(last.cols) \subseteq 1..last.ncols
           /\ Increasing(last.cols)

\* scores [5, 3, 5, 1] up to order-preserving renaming, k = 2: columns 0 and 2
\* of the source, positions 1 and 3 here.
C1_Witness ==
    /\ TransformedFittedTable
    /\ k = 2
    /\ scores = Array1d(<<2, 1, 2, 0>>)
    /\ last.outcome = "ok"
    /\ last.cols = <<1, 3>>

\* C2: with 0 < k <= n_features the columns transform selects are the k best:
\* a selected feature never scores below an unselected one, and where a
\* selected and an unselected feature have the same score the selected one
\* has the larger column index.
C2_KBestTiesToLargerIndex ==
    (TransformedFittedTable /\ 0 < k /\ k <= fitted.ncols)
        => /\ last.outcome = "ok"
           /\ Len(last.cols) = k
           /\ \A i \in Range(last.cols) :
                  \A j \in (1..fitted.ncols) \ Range(last.cols) :
                      \/ scores.v[i] > scores.v[j]
                      \/ (scores.v[i] = scores.v[j] /\ i > j)

\* scores [5, 5, 1] up to renaming, k = 1: column 1 of the source, position 2.
C2_Witness ==
    /\ TransformedFittedTable
    /\ k = 1
    /\ scores = Array1d(<<2, 2, 0>>)
    /\ last.outcome = "ok"
    /\ last.cols = <<2>>

\* C3: with k = 0 every transform ends with the empty-selection error,
\* fitted or not, whatever the table.
C3_KZeroAlwaysNoFeatures ==
    (last.op = "transform" /\ k = 0) => last.outcome = "NoFeatures"

\* C4 as stated: with k >= n_features, transform after fit on the same table
\* raises nothing and returns all the columns in order.
C4_AllColumnsWhenKCovers ==
    (TransformedFittedTable /\ k >= fitted.ncols)
        => /\ last.outcome = "ok"
           /\ last.cols = Columns(fitted.ncols)

\* C4 amended: the same for a table with at least one column; on a table
\* without columns transform ends with the empty-selection error.
C4_AllColumnsWhenKCoversNonEmpty ==
    /\ (TransformedFittedTable /\ fitted.ncols >= 1 /\ k >= fitted.ncols)
           => /\ last.outcome = "ok"
              /\ last.cols = Columns(fitted.ncols)
    /\ (TransformedFittedTable /\ fitted.ncols = 0)
           => last.outcome = "NoFeatures"

C4_Witness ==
    /\ TransformedFittedTable
    /\ fitted.ncols = MaxFeatures
    /\ k = MaxFeatures + 1
    /\ last.outcome = "ok"
    /\ last.cols = Columns(MaxFeatures)

\* C5: with k > 0, transform on a selector on which no fit has returned
\* normally ends with the not-fitted error and returns no table.
C5_UnfittedRaisesNotFitted ==
    (last.op = "transform" /\ k > 0 /\ ~fitted.done)
        => /\ last.outcome = "NotFitted"
           /\ last.cols = <<>>

C5_Witness ==
    /\ last.op = "transform"
    /\ k > 0
    /\ ~fitted.done
    /\ fitted.failed
    /\ last.outcome = "NotFitted"

\* The scoring function of the most recent fit that returned normally kept to
\* the documented return contract (lines 42-43).
FittedByContract == fitted.done /\ fitted.ret.shape \in {"ndarray", "pair"}

\* C6: after any sequence of fits, scores and pvalues are those of the most
\* recent fit that returned normally (pvalues None when its scoring function
\* returned scores only), and a transform computes its result from those
\* scores alone.
C6_StateIsLatestFit ==
    FittedByContract
        => /\ scores = Array1d(fitted.ret.s)
           /\ pvalues = IF fitted.ret.shape = "pair"
                        THEN Array1d(fitted.ret.p) ELSE NoneVal
           /\ last.op = "transform"
                  => /\ last.outcome
                        = transform(k, Array1d(fitted.ret.s), last.ncols).outcome
                     /\ last.cols
                        = transform(k, Array1d(fitted.ret.s), last.ncols).cols

\* A fit that found p-values of an earlier (scores, p-values) fit and whose
\* own scoring function returned scores only.
C6_Witness ==
    /\ last.op = "fit"
    /\ last.outcome = "ok"
    /\ last.prevp = "ndarray"
    /\ fitted.ret.shape = "ndarray"
    /\ pvalues = NoneVal

\* C7: a fit that finds score_func None sets it to f_classif when the target
\* has at most 15 distinct values and to f_regression otherwise; a fit that
\* finds it set leaves it as it is, whatever the target's cardinality.
C7_DefaultScorerFixedAtFit ==
    (last.op = "fit" /\ last.nunique /= 0)
        => IF last.sf0 = "None"
           THEN score_func = IF last.nunique <= 15 THEN "f_classif"
                             ELSE "f_regression"
           ELSE score_func = last.sf0

\* A fit on a target of more than 15 distinct values that kept f_classif.
C7_Witness ==
    /\ last.op = "fit"
    /\ last.outcome = "ok"
    /\ last.sf0 = "f_classif"
    /\ last.nunique > 15
    /\ fitted.failed = FALSE
    /\ score_func = "f_classif"

\* C8: on a fitted selector with k > 0 and n >= 1 scores, transform on a table
\* whose column count is not n ends with the shape-mismatch error and
\* returns no table.
C8_ShapeMismatch ==
    (/\ last.op = "transform"
     /\ k > 0
     /\ scores.kind = "ndarray"
     /\ Len(scores.v) >= 1
     /\ last.ncols /= Len(scores.v))
        => /\ last.outcome = "ShapeMismatch"
           /\ last.cols = <<>>

\* fit on 4 columns, transform on 3
C8_Witness ==
    /\ last.op = "transform"
    /\ k > 0
    /\ fitted.ncols = 4
    /\ Len(scores.v) = 4
    /\ last.ncols = 3
    /\ last.outcome = "ShapeMismatch"

\* C9: a fit that ends with a type error leaves score_func, scores and
\* pvalues as they were and does not invoke the scoring function, so that
\* transform gives afterwards what it gave before.
C9_TypeErrorKeepsState ==
    [][(last'.op = "fit" /\ last'.outcome = "TypeError")
          => /\ score_func' = score_func
             /\ scores' = scores
             /\ pvalues' = pvalues
             /\ ~last'.scored
             /\ \A c \in 0..MaxCols :
                    transform(k', scores', c) = transform(k, scores, c)]_vars

\* A fit that raised a type error on a fitted selector whose score_func had
\* not been set.
C9_Witness ==
    /\ last.op = "fit"
    /\ last.outcome = "TypeError"
    /\ last.sf0 = "None"
    /\ score_func = "None"
    /\ fitted.done
    /\ scores.kind = "ndarray"

\* What fit stores for a return of the scoring function, as C10 states it.
StoredAsReturned ==
    /\ last.outcome = "ok"
    /\ scores = Array1d(fitted.ret.s)
    /\ Len(scores.v) = fitted.ncols
    /\ pvalues = IF fitted.ret.shape = "pair"
                 THEN Array1d(fitted.ret.p) ELSE NoneVal
    /\ fitted.ret.shape = "pair" => Len(pvalues.v) = fitted.ncols

\* C10 as stated: whatever sequence type carries the scores (a plain list
\* included), a fit whose scoring function returned scores only stores them
\* with pvalues None, and one whose scoring function returned a pair stores
\* its first element as scores and its second as pvalues.
C10_StoresBothShapes ==
    (last.op = "fit" /\ last.shape \in {"ndarray", "list", "pair"})
        => StoredAsReturned

\* C10 amended: the same for scores returned as an array that is neither a
\* list nor a tuple; a plain list of scores is unpacked as a pair, so that
\* fit raises unless the list holds exactly two scores, which it then stores
\* as a 0-d scores and a 0-d pvalues.
C10_StoresArrayOrPair ==
    /\ (last.op = "fit" /\ last.shape \in {"ndarray", "pair"})
           => StoredAsReturned
    /\ (last.op = "fit" /\ last.shape = "list")
           => \/ last.outcome = "UnpackError"
              \/ /\ last.outcome = "ok"
                 /\ fitted.ncols = 2
                 /\ scores = Array0d(fitted.ret.s[1])
                 /\ pvalues = Array0d(fitted.ret.s[2])

C10_Witness ==
    /\ last.op = "fit"
    /\ last.shape = "pair"
    /\ last.outcome = "ok"
    /\ fitted.ncols = 2
    /\ scores = Array1d(<<MaxScore, 0>>)
    /\ pvalues = Array1d(<<1, 1>>)

====
